---- MODULE Spec2Model ----
(***************************************************************************)
(* A model of the train game of src/game.py: the engine state of class    *)
(* Game (date, stations, trains_v1, money), one action per command of     *)
(* Game.gameloop, and the tick of Game.tick with its four steps.          *)
(*                                                                         *)
(* Floating point of the source is modelled by exact integer arithmetic:  *)
(* int(sqrt(n)) is the integer square root, int(0.46 * sqrt(n)) is the    *)
(* integer square root of (2116 * n) \div 10000, and int(b * 0.8),        *)
(* int(b * 1.2), int(b * 0.64) are (8b) \div 10, (12b) \div 10 and        *)
(* (64b) \div 100; the two sides agree on every distance of the           *)
(* 1024 x 1024 grid and on every base of get_passenger_range.             *)
(*                                                                         *)
(* randbelow(n) is a nondeterministic choice of which the model draws    *)
(* the least and the greatest outcome, 0 and n - 1; the draws of one call *)
(* of _add_passenger fall at the same end.  Station ids (the last 8       *)
(* characters of a uuid4) are taken to be distinct: station i has id i,   *)
(* and NoId is an input that names no station.                            *)
(***************************************************************************)
EXTENDS Integers, Sequences, FiniteSets, TLC

VARIABLES
    date,       \* Game.date, a record [year, month, day]
    stations,   \* Game.stations, a sequence of Station records
    trains_v1,  \* Game.trains_v1, a sequence of TrainV1 records
    money,      \* Game.money
    signal,     \* the value the last call of Game.gameloop returned
    pc,         \* "loop": main is about to call gameloop; "exited": main
                \* left its loop; "crashed": an exception ended the process
    last,       \* the last command processed and how it ended
    ticks,      \* number of calls of Game.tick so far
    made,       \* number of TrainV1 objects created so far
    book        \* the passengers generated, carried and arrived and the
                \* money debited so far; kept by SpecBooks alone

vars ==
    <<date, stations, trains_v1, money, signal, pc, last, ticks, made, book>>

\* ---------------------------------------------------------------- bounds
NumStations == 2
MaxTicks == 2
MaxTrains == 1
MaxTripTicks == 11
LateTicks == 20

\* ------------------------------------------------------------- constants
GAS_FEE_PERMYRIAD == 2116  \* GAS_FEE squared, in 1/10000: 0.46 * 0.46
TRAIN_CAPACITY == 240
TICKET_PRICE == 12
TRAIN_SPEED == 80
INITIAL_MONEY == 2000

ST_UNUSED == "unused"
ST_ENABLED == "enabled"
ST_DISABLED == "disabled"
StationStatusEnum == {ST_UNUSED, ST_ENABLED, ST_DISABLED}

StationClassEnum == 1..5

Stations == 1..NumStations
NoId == NumStations + 1
Ids == Stations \cup {NoId}
None == [none |-> TRUE]

\* ------------------------------------------------------- pure functions
\* secrets.randbelow(n) for n > 0: its greatest outcome or its least.
randbelow(n, greatest) == IF greatest THEN n - 1 ELSE 0

\* Mutant: the band is chosen by comparing the levels after the swap.
get_passenger_range_swapped(lhs_class, rhs_class) ==
    LET level_lhs == 6 - lhs_class
        level_rhs == 6 - rhs_class
        lo == IF level_lhs > level_rhs THEN level_rhs ELSE level_lhs
        hi == IF level_lhs > level_rhs THEN level_lhs ELSE level_rhs
        reverted == lo > hi
        base_multiplier == 1 + lo
        base_result == base_multiplier * hi
    IN  IF ~reverted
        THEN <<(base_result * 8) \div 10, (base_result * 12) \div 10>>
        ELSE <<(base_result * 64) \div 100, (base_result * 8) \div 10>>

\* Mutant: the levels are 5 - class, so that class 5 has level 0.
get_passenger_range_from0(lhs_class, rhs_class) ==
    LET level_lhs == 5 - lhs_class
        level_rhs == 5 - rhs_class
        reverted == level_lhs > level_rhs
        lo == IF reverted THEN level_rhs ELSE level_lhs
        hi == IF reverted THEN level_lhs ELSE level_rhs
        base_multiplier == 1 + lo
        base_result == base_multiplier * hi
    IN  IF ~reverted
        THEN <<(base_result * 8) \div 10, (base_result * 12) \div 10>>
        ELSE <<(base_result * 64) \div 100, (base_result * 8) \div 10>>

get_passenger_range(lhs_class, rhs_class) ==
    LET level_lhs == 6 - lhs_class
        level_rhs == 6 - rhs_class
        reverted == level_lhs > level_rhs
        lo == IF reverted THEN level_rhs ELSE level_lhs
        hi == IF reverted THEN level_lhs ELSE level_rhs
        base_multiplier == 1 + lo
        base_result == base_multiplier * hi
    IN  IF ~reverted
        THEN <<(base_result * 8) \div 10, (base_result * 12) \div 10>>
        ELSE <<(base_result * 64) \div 100, (base_result * 8) \div 10>>

\* Mutant: the draw may reach 100 * level.
get_random_price_inclusive(station_class, greatest) ==
    LET level == 6 - station_class
        level_base_pricing == level * 270
        level_additional_pricing == randbelow(100 * level + 1, greatest)
    IN  level_base_pricing + level_additional_pricing

get_random_price(station_class, greatest) ==
    LET level == 6 - station_class
        level_base_pricing == level * 270
        level_additional_pricing == randbelow(100 * level, greatest)
    IN  level_base_pricing + level_additional_pricing

\* Mutant: the fee of class 1 copied to class 2.
get_maintance_fee_copied(station_class) ==
    CASE station_class = 1 -> 250
      [] station_class = 2 -> 250
      [] station_class = 3 -> 150
      [] station_class = 4 -> 100
      [] station_class = 5 -> 50

get_maintance_fee(station_class) ==
    CASE station_class = 1 -> 250
      [] station_class = 2 -> 200
      [] station_class = 3 -> 150
      [] station_class = 4 -> 100
      [] station_class = 5 -> 50

\* int(sqrt(n)) for a natural n.
RECURSIVE IsqrtFrom(_, _)
IsqrtFrom(n, r) == IF (r + 1) * (r + 1) > n THEN r ELSE IsqrtFrom(n, r + 1)

Isqrt(n) ==
    LET coarse == IsqrtFrom(n \div 10000, 0) * 100
        mid == IsqrtFrom(n \div 100, coarse \div 10) * 10
    IN  IsqrtFrom(n, mid)

\* The square of Station.distance(lhs, rhs).
DistanceSquared(lhs, rhs) ==
    (lhs.pos_x - rhs.pos_x) * (lhs.pos_x - rhs.pos_x)
        + (lhs.pos_y - rhs.pos_y) * (lhs.pos_y - rhs.pos_y)

\* int(lhs.distance(rhs)), as _auto_train_v1 and TrainV1.__repr__ take it.
IntDistance(lhs, rhs) == Isqrt(DistanceSquared(lhs, rhs))

\* int(GAS_FEE * from_station.distance(to_station)) of the dispatch branch.
DispatchCost(lhs, rhs) ==
    Isqrt((GAS_FEE_PERMYRIAD * DistanceSquared(lhs, rhs)) \div 10000)

get_station_by_id(sts, id) ==
    IF \E i \in 1..Len(sts) : sts[i].id = id
    THEN LET i == CHOOSE i \in 1..Len(sts) :
                    /\ sts[i].id = id
                    /\ \A j \in 1..Len(sts) : sts[j].id = id => i <= j
         IN  sts[i]
    ELSE None

\* ------------------------------------------------------------ the clock
IsLeap(y) == (y % 4 = 0 /\ y % 100 # 0) \/ y % 400 = 0

DaysInMonth(y, m) ==
    IF m = 2 THEN (IF IsLeap(y) THEN 29 ELSE 28)
    ELSE IF m \in {4, 6, 9, 11} THEN 30 ELSE 31

\* date + timedelta(days=1)
NextDay(d) ==
    IF d.day < DaysInMonth(d.year, d.month)
    THEN [d EXCEPT !.day = d.day + 1]
    ELSE IF d.month < 12
         THEN [year |-> d.year, month |-> d.month + 1, day |-> 1]
         ELSE [year |-> d.year + 1, month |-> 1, day |-> 1]

\* ------------------------------------------------------- the tick's steps
\* Mutant: a train is booked as full whatever it took on.
TrainV1_full(from_station, to_station, passengers) ==
    [from_station |-> from_station, to_station |-> to_station,
     speed |-> TRAIN_SPEED, capacity |-> TRAIN_CAPACITY,
     ticket_price |-> TICKET_PRICE, passengers |-> TRAIN_CAPACITY,
     distance_travelled |-> 0]

\* A TrainV1 holds references to its two stations: their indices in
\* Game.stations.
TrainV1(from_station, to_station, passengers) ==
    [from_station |-> from_station, to_station |-> to_station,
     speed |-> TRAIN_SPEED, capacity |-> TRAIN_CAPACITY,
     ticket_price |-> TICKET_PRICE, passengers |-> passengers,
     distance_travelled |-> 0]

\* int(self.from_station.distance(self.to_station)) of a train.
TrainDistance(sts, train) ==
    IntDistance(sts[train.from_station], sts[train.to_station])

\* TrainV1.__repr__ divides by the truncated distance: it raises
\* ZeroDivisionError when that is 0.
ReprRaises(sts, train) == TrainDistance(sts, train) = 0

\* Mutant: a train arrives as soon as it has reached the distance.
Arrives_reached(sts, train) ==
    train.distance_travelled >= TrainDistance(sts, train)

\* The arrival test of _auto_train_v1, on a train that has just moved.
Arrives(sts, train) ==
    train.distance_travelled > TrainDistance(sts, train)

\* Mutant: every seat is paid for.
Earned_seats(train) == train.ticket_price * train.capacity

\* earned = train.ticket_price * train.passengers
Earned(train) == train.ticket_price * train.passengers

\* Game._auto_train_v1, from the i-th train on.  remaining and m are the
\* loop's remaining_trains and self.money so far.  The arrival message
\* formats the train before the money is credited: when that raises, the
\* trains up to the i-th have moved, self.trains_v1 is still the old list
\* and nothing is credited for the i-th.
RECURSIVE auto_train_v1(_, _, _, _, _)
auto_train_v1(sts, trains, i, remaining, m) ==
    IF i > Len(trains)
    THEN [trains_v1 |-> remaining, money |-> m, raised |-> FALSE]
    ELSE LET train == [trains[i] EXCEPT
                          !.distance_travelled = @ + trains[i].speed]
         IN  IF Arrives(sts, train)
             THEN IF ReprRaises(sts, train)
                  THEN [trains_v1 |->
                            [j \in 1..Len(trains) |->
                                IF j <= i
                                THEN [trains[j] EXCEPT
                                        !.distance_travelled =
                                            @ + trains[j].speed]
                                ELSE trains[j]],
                        money |-> m, raised |-> TRUE]
                  ELSE auto_train_v1(sts, trains, i + 1, remaining,
                          m + Earned(train))
             ELSE auto_train_v1(sts, trains, i + 1,
                                Append(remaining, train), m)

\* The sum of the maintenance fees of the enabled stations from index i on.
RECURSIVE MaintanceFees(_, _)
MaintanceFees(sts, i) ==
    IF i > Len(sts) THEN 0
    ELSE (IF sts[i].status = ST_ENABLED
          THEN get_maintance_fee(sts[i].station_class) ELSE 0)
         + MaintanceFees(sts, i + 1)

\* Game._station_maintance: self.money after it, d being self.date.
station_maintance(d, sts, m) ==
    IF d.day # 1 THEN m ELSE m - MaintanceFees(sts, 1)

\* Mutant: the destination need not be enabled.
RECURSIVE add_passenger_any(_, _, _)
add_passenger_any(sts, k, greatest) ==
    IF k > Len(sts) * Len(sts)
    THEN [stations |-> sts, raised |-> FALSE]
    ELSE LET from_station == sts[((k - 1) \div Len(sts)) + 1]
             to_station == sts[((k - 1) % Len(sts)) + 1]
             range == get_passenger_range(from_station.station_class,
                                          to_station.station_class)
         IN  IF \/ from_station.id = to_station.id
                \/ from_station.status # ST_ENABLED
             THEN add_passenger_any(sts, k + 1, greatest)
             ELSE add_passenger_any(
                    [sts EXCEPT
                       ![((k - 1) \div Len(sts)) + 1]
                          .passengers[to_station.id] =
                             @ + randbelow(range[2] - range[1], greatest)
                               + range[1]],
                    k + 1, greatest)

\* Mutant: the drawn count is assigned to the counter, not added to it.
RECURSIVE add_passenger_assigned(_, _, _)
add_passenger_assigned(sts, k, greatest) ==
    IF k > Len(sts) * Len(sts)
    THEN [stations |-> sts, raised |-> FALSE]
    ELSE LET from_station == sts[((k - 1) \div Len(sts)) + 1]
             to_station == sts[((k - 1) % Len(sts)) + 1]
             range == get_passenger_range(from_station.station_class,
                                          to_station.station_class)
         IN  IF \/ from_station.id = to_station.id
                \/ from_station.status # ST_ENABLED
                \/ to_station.status # ST_ENABLED
             THEN add_passenger_assigned(sts, k + 1, greatest)
             ELSE add_passenger_assigned(
                    [sts EXCEPT
                       ![((k - 1) \div Len(sts)) + 1]
                          .passengers[to_station.id] =
                             randbelow(range[2] - range[1], greatest)
                             + range[1]],
                    k + 1, greatest)

\* Mutant: a station is not skipped as its own destination.
RECURSIVE add_passenger_self(_, _, _)
add_passenger_self(sts, k, greatest) ==
    IF k > Len(sts) * Len(sts)
    THEN [stations |-> sts, raised |-> FALSE]
    ELSE LET from_station == sts[((k - 1) \div Len(sts)) + 1]
             to_station == sts[((k - 1) % Len(sts)) + 1]
             range == get_passenger_range(from_station.station_class,
                                          to_station.station_class)
         IN  IF \/ from_station.status # ST_ENABLED
                \/ to_station.status # ST_ENABLED
             THEN add_passenger_self(sts, k + 1, greatest)
             ELSE add_passenger_self(
                    [sts EXCEPT
                       ![((k - 1) \div Len(sts)) + 1]
                          .passengers[to_station.id] =
                             @ + randbelow(range[2] - range[1], greatest)
                               + range[1]],
                    k + 1, greatest)

\* Game._add_passenger from the k-th ordered pair on, the pairs taken in
\* the order of the two nested loops, every draw falling at the same end.
\* raised: randbelow was given 0 and raised ValueError.
RECURSIVE add_passenger(_, _, _)
add_passenger(sts, k, greatest) ==
    IF k > Len(sts) * Len(sts)
    THEN [stations |-> sts, raised |-> FALSE]
    ELSE LET from_station == sts[((k - 1) \div Len(sts)) + 1]
             to_station == sts[((k - 1) % Len(sts)) + 1]
         IN  IF \/ from_station.id = to_station.id
                \/ from_station.status # ST_ENABLED
                \/ to_station.status # ST_ENABLED
             THEN add_passenger(sts, k + 1, greatest)
             ELSE LET range == get_passenger_range(from_station.station_class,
                                                   to_station.station_class)
                      new_passengers_low == range[1]
                      new_passengers_high == range[2]
                  IN  IF new_passengers_high - new_passengers_low <= 0
                      THEN [stations |-> sts, raised |-> TRUE]
                      ELSE LET new_passengers ==
                                   randbelow(new_passengers_high
                                             - new_passengers_low, greatest)
                                   + new_passengers_low
                           IN  add_passenger(
                                 [sts EXCEPT
                                    ![((k - 1) \div Len(sts)) + 1]
                                       .passengers[to_station.id] =
                                          @ + new_passengers],
                                 k + 1, greatest)

\* Mutant: the comparison turned round.
check_money_turned(m) == m > 0

\* Game._check_money: whether it raises OutOfMoneyException.
check_money(m) == m < 0

\* Mutant: maintenance is decided on the date the tick started on.
tick_maintained_first(op) ==
    LET moved == auto_train_v1(stations, trains_v1, 1, <<>>, money)
        tomorrow == NextDay(date)
        paid == station_maintance(date, stations, moved.money)
    IN  /\ ticks' = ticks + 1
        /\ UNCHANGED made
        /\ trains_v1' = moved.trains_v1
        /\ IF moved.raised
           THEN /\ money' = moved.money
                /\ pc' = "crashed"
                /\ last' = [op |-> op, res |-> "raised"]
                /\ UNCHANGED <<date, stations, signal>>
           ELSE /\ date' = tomorrow
                /\ money' = paid
                /\ \E out \in {add_passenger(stations, 1, greatest) :
                                  greatest \in BOOLEAN} :
                      /\ stations' = out.stations
                      /\ IF out.raised
                         THEN /\ pc' = "crashed"
                              /\ last' = [op |-> op, res |-> "raised"]
                              /\ UNCHANGED signal
                         ELSE IF check_money(paid)
                              THEN /\ signal' = -1
                                   /\ pc' = "exited"
                                   /\ last' = [op |-> op, res |-> "bankrupt",
                                               earned |-> moved.money - money]
                              ELSE /\ signal' = 0
                                   /\ pc' = "loop"
                                   /\ last' = [op |-> op, res |-> "ticked",
                                               earned |-> moved.money - money]

\* Game.tick, called by command op.  An exception other than
\* OutOfMoneyException is not caught: it ends the process.  last records
\* what _auto_train_v1 credited.
tick(op) ==
    LET moved == auto_train_v1(stations, trains_v1, 1, <<>>, money)
        tomorrow == NextDay(date)
        paid == station_maintance(tomorrow, stations, moved.money)
    IN  /\ ticks' = ticks + 1
        /\ UNCHANGED made
        /\ trains_v1' = moved.trains_v1
        /\ IF moved.raised
           THEN /\ money' = moved.money
                /\ pc' = "crashed"
                /\ last' = [op |-> op, res |-> "raised"]
                /\ UNCHANGED <<date, stations, signal>>
           ELSE /\ date' = tomorrow
                /\ money' = paid
                /\ \E out \in {add_passenger(stations, 1, greatest) :
                                  greatest \in BOOLEAN} :
                      /\ stations' = out.stations
                      /\ IF out.raised
                         THEN /\ pc' = "crashed"
                              /\ last' = [op |-> op, res |-> "raised"]
                              /\ UNCHANGED signal
                         ELSE IF check_money(paid)
                              THEN /\ signal' = -1
                                   /\ pc' = "exited"
                                   /\ last' = [op |-> op, res |-> "bankrupt",
                                               earned |-> moved.money - money]
                              ELSE /\ signal' = 0
                                   /\ pc' = "loop"
                                   /\ last' = [op |-> op, res |-> "ticked",
                                               earned |-> moved.money - money]

\* ------------------------------------------------------ the commands
\* What a command leaves alone when it changes no engine state.
engine == <<date, stations, trains_v1, money>>

\* gameloop returns 0 without having changed anything.
Returns0(op, res) ==
    /\ signal' = 0
    /\ pc' = "loop"
    /\ last' = [op |-> op, res |-> res]
    /\ UNCHANGED <<engine, ticks, made>>

\* An exception leaves gameloop and main: the process ends.
Raises(op) ==
    /\ pc' = "crashed"
    /\ last' = [op |-> op, res |-> "raised"]
    /\ UNCHANGED signal

\* prompt "s"
ShowStations ==
    /\ pc = "loop"
    /\ Returns0("s", "shown")

\* prompt "t": prints every tracked train.
ShowTrains ==
    /\ pc = "loop"
    /\ IF \E i \in 1..Len(trains_v1) : ReprRaises(stations, trains_v1[i])
       THEN Raises("t") /\ UNCHANGED <<engine, ticks, made>>
       ELSE Returns0("t", "shown")

\* prompt "c", and every prompt that is no command letter.
Continue(limit) ==
    /\ pc = "loop"
    /\ ticks < limit
    /\ tick("c")

\* prompt "q"
Quit ==
    /\ pc = "loop"
    /\ signal' = -1
    /\ pc' = "exited"
    /\ last' = [op |-> "q", res |-> "quit"]
    /\ UNCHANGED <<engine, ticks, made>>

\* prompt "a": words is len(calc) after the split, id1 and id2 are calc[0]
\* and calc[1].  The branch has no return after it prints the distance.
Calculator(limit, words, id1, id2) ==
    /\ pc = "loop"
    /\ IF words # 2
       THEN Returns0("a", "badinput")
       ELSE IF \/ get_station_by_id(stations, id1) = None
               \/ get_station_by_id(stations, id2) = None
            THEN Returns0("a", "unresolved")
            ELSE /\ ticks < limit
                 /\ tick("a")

\* Mutant: every waiting passenger is taken on board.
Delivered_all(pending) == pending

\* delivered_passengers = min(TRAIN_CAPACITY, pending) of the dispatch.
Delivered(pending) == IF TRAIN_CAPACITY < pending THEN TRAIN_CAPACITY ELSE pending

\* Mutant: the train leaves whatever the answer.
Dispatch_unasked(from_station_id, to_station_id, confirm) ==
    /\ pc = "loop"
    /\ LET from_station == get_station_by_id(stations, from_station_id)
           to_station == get_station_by_id(stations, to_station_id)
       IN  IF from_station = None
           THEN Returns0("g", "nofrom")
           ELSE IF to_station = None
           THEN Returns0("g", "noto")
           ELSE LET delivered_passengers ==
                        Delivered(from_station.passengers[to_station_id])
                    train == TrainV1(from_station.id, to_station.id,
                                     delivered_passengers)
                IN  /\ made < MaxTrains
                    /\ made' = made + 1
                    /\ money' = money - DispatchCost(from_station, to_station)
                    /\ stations' =
                         [stations EXCEPT
                            ![from_station.id].passengers[to_station_id]
                                = @ - delivered_passengers]
                    /\ trains_v1' = Append(trains_v1, train)
                    /\ UNCHANGED <<date, ticks>>
                    /\ IF ReprRaises(stations, train)
                       THEN Raises("g")
                       ELSE /\ signal' = 0
                            /\ pc' = "loop"
                            /\ last' = [op |-> "g", res |-> "dispatched"]

\* prompt "g": from_station_id, to_station_id and the answer to "it's okay?"
Dispatch(from_station_id, to_station_id, confirm) ==
    /\ pc = "loop"
    /\ LET from_station == get_station_by_id(stations, from_station_id)
           to_station == get_station_by_id(stations, to_station_id)
       IN  IF from_station = None
           THEN Returns0("g", "nofrom")
           ELSE IF to_station = None
           THEN Returns0("g", "noto")
           ELSE LET cost == DispatchCost(from_station, to_station)
                    pending == from_station.passengers[to_station_id]
                    delivered_passengers == Delivered(pending)
                    train == TrainV1(from_station.id, to_station.id,
                                     delivered_passengers)
                IN  IF ~confirm
                    THEN Returns0("g", "declined")
                    ELSE /\ made < MaxTrains
                         /\ made' = made + 1
                         /\ money' = money - cost
                         /\ stations' =
                              [stations EXCEPT
                                 ![from_station.id].passengers[to_station_id]
                                     = @ - delivered_passengers]
                         /\ trains_v1' = Append(trains_v1, train)
                         /\ UNCHANGED <<date, ticks>>
                         /\ IF ReprRaises(stations, train)
                            THEN Raises("g")
                            ELSE /\ signal' = 0
                                 /\ pc' = "loop"
                                 /\ last' = [op |-> "g", res |-> "dispatched"]

\* Mutant: the station is handed over and the price is not debited.
Buy_free(station_id, confirm) ==
    /\ pc = "loop"
    /\ LET station == get_station_by_id(stations, station_id)
       IN  IF station = None
           THEN Raises("b") /\ UNCHANGED <<engine, ticks, made>>
           ELSE IF station.status # ST_UNUSED
           THEN Returns0("b", "invalid")
           ELSE IF money - station.buy_pricing < 0
           THEN Returns0("b", "tooexpensive")
           ELSE IF ~confirm
           THEN Returns0("b", "declined")
           ELSE /\ stations' = [stations EXCEPT
                                  ![station.id].status = ST_ENABLED]
                /\ signal' = 0
                /\ pc' = "loop"
                /\ last' = [op |-> "b", res |-> "bought"]
                /\ UNCHANGED <<money, date, trains_v1, ticks, made>>

\* Mutant: the status of the station is not looked at.
Buy_again(station_id, confirm) ==
    /\ pc = "loop"
    /\ LET station == get_station_by_id(stations, station_id)
       IN  IF station = None
           THEN Raises("b") /\ UNCHANGED <<engine, ticks, made>>
           ELSE IF money - station.buy_pricing < 0
           THEN Returns0("b", "tooexpensive")
           ELSE IF ~confirm
           THEN Returns0("b", "declined")
           ELSE /\ stations' = [stations EXCEPT
                                  ![station.id].status = ST_ENABLED]
                /\ money' = money - station.buy_pricing
                /\ signal' = 0
                /\ pc' = "loop"
                /\ last' = [op |-> "b", res |-> "bought"]
                /\ UNCHANGED <<date, trains_v1, ticks, made>>

\* prompt "b": station_id and the answer to "it's okay?"
Buy(station_id, confirm) ==
    /\ pc = "loop"
    /\ LET station == get_station_by_id(stations, station_id)
       IN  IF station = None
           THEN Raises("b") /\ UNCHANGED <<engine, ticks, made>>
           ELSE IF station.status # ST_UNUSED
           THEN Returns0("b", "invalid")
           ELSE IF money - station.buy_pricing < 0
           THEN Returns0("b", "tooexpensive")
           ELSE IF ~confirm
           THEN Returns0("b", "declined")
           ELSE /\ stations' = [stations EXCEPT
                                  ![station.id].status = ST_ENABLED]
                /\ money' = money - station.buy_pricing
                /\ signal' = 0
                /\ pc' = "loop"
                /\ last' = [op |-> "b", res |-> "bought"]
                /\ UNCHANGED <<date, trains_v1, ticks, made>>

\* ------------------------------------------------------- construction
\* Mutant: the default status of a station is enabled.
Station_enabled(pos, station_class, greatest, i) ==
    [pos_x |-> pos[1], pos_y |-> pos[2], status |-> ST_ENABLED,
     station_class |-> station_class,
     passengers |-> [d \in Stations |-> 0],
     buy_pricing |-> get_random_price(station_class, greatest), id |-> i]

\* Station(...) after __post_init__; i is its place in Game.stations and
\* its id.  passengers is the defaultdict: 0 for every destination.
Station(pos, station_class, greatest, i) ==
    [pos_x |-> pos[1], pos_y |-> pos[2], status |-> ST_UNUSED,
     station_class |-> station_class,
     passengers |-> [d \in Stations |-> 0],
     buy_pricing |-> get_random_price(station_class, greatest), id |-> i]

\* The lists of n stations the loop of Game.__init__ can build: the i-th
\* station's position is drawn from points[i], its class from classes[i]
\* and its price at one of ends[i].
RECURSIVE NewStations(_, _, _, _)
NewStations(n, points, classes, ends) ==
    IF n = 0 THEN {<<>>}
    ELSE {Append(sts, Station(pos, c, greatest, n)) :
            sts \in NewStations(n - 1, points, classes, ends),
            pos \in points[n], c \in classes[n], greatest \in ends[n]}

\* The books of a game in which nothing has happened yet.
NoBooks ==
    [generated |-> [o \in Stations |-> [d \in Stations |-> 0]],
     carried |-> [o \in Stations |-> [d \in Stations |-> 0]],
     arrived |-> [o \in Stations |-> [d \in Stations |-> 0]],
     debited |-> 0]

\* Game.__init__, today being one of dates.
Construct(dates, points, classes, ends) ==
    /\ date \in dates
    /\ stations \in NewStations(NumStations, points, classes, ends)
    /\ money = INITIAL_MONEY
    /\ trains_v1 = <<>>
    /\ signal = 0
    /\ pc = "loop"
    /\ last = [op |-> "init", res |-> "constructed"]
    /\ ticks = 0
    /\ made = 0
    /\ book = NoBooks

Date(y, m, d) == [year |-> y, month |-> m, day |-> d]

\* Days a game is started on: two ticks before March in a leap year, and
\* the last day of a year.
StartDates == {Date(2024, 2, 28), Date(2023, 12, 31)}

\* The map of the game: the first station at the origin, the second 50 or
\* 1000 away from it, every other one 80 away from the first.
Points ==
    [i \in Stations |->
        IF i = 1 THEN {<<0, 0>>}
        ELSE IF i = 2 THEN {<<30, 40>>, <<600, 800>>}
        ELSE {<<48, 64>>}]

\* The classes of the game: a largest station, a smallest one, then
\* stations of class 3.
Classes == [i \in Stations |-> IF i = 1 THEN {1} ELSE IF i = 2 THEN {5} ELSE {3}]

\* Every price is drawn at its least.
Ends == [i \in Stations |-> {FALSE}]

\* The game is started two ticks before March in a leap year.
Init == Construct({Date(2024, 2, 28)}, Points, Classes, Ends)

\* len(calc) of the calculator's input: too few, two, too many.
WordCounts == 1..3

\* The inputs a command reads.  An input the command never reads (the ids
\* of a calculator line that has not two words, the destination after an
\* origin or the answer after an id that does not resolve) is not
\* enumerated.  The calculator is given the first station's id or NoId.
Resolves(id) == get_station_by_id(stations, id) # None
CalcIds(words) == IF words = 2 THEN {1, NoId} ELSE {NoId}
ToIds(from_station_id) == IF Resolves(from_station_id) THEN Ids ELSE {NoId}
Answers(from_station_id, to_station_id) ==
    IF Resolves(from_station_id) /\ Resolves(to_station_id)
    THEN BOOLEAN ELSE {FALSE}
BuyAnswers(station_id) == IF Resolves(station_id) THEN BOOLEAN ELSE {FALSE}

Next ==
    \/ ShowStations /\ UNCHANGED book
    \/ ShowTrains /\ UNCHANGED book
    \/ Continue(MaxTicks) /\ UNCHANGED book
    \/ Quit /\ UNCHANGED book
    \/ \E words \in WordCounts :
          \E id1 \in CalcIds(words), id2 \in CalcIds(words) :
             Calculator(MaxTicks, words, id1, id2) /\ UNCHANGED book
    \/ \E from_station_id \in Ids :
          \E to_station_id \in ToIds(from_station_id) :
             \E confirm \in Answers(from_station_id, to_station_id) :
                /\ Dispatch(from_station_id, to_station_id, confirm)
                /\ UNCHANGED book
    \/ \E station_id \in Ids :
          \E confirm \in BuyAnswers(station_id) :
             Buy(station_id, confirm) /\ UNCHANGED book

Spec == Init /\ [][Next]_vars

\* ------------------------------------------------------ journeys
\* The game on maps whose second station is 1, 79.6, 80, 80.6, 799.8, 800
\* or 800.2 away from the first, with trains and ticks only: no station is
\* bought, so nothing but the trains moves the balance.
TripPoints ==
    [i \in Stations |->
        IF i = 1 THEN {<<0, 0>>}
        ELSE IF i = 2
             THEN {<<1, 0>>, <<50, 62>>, <<48, 64>>, <<57, 57>>,
                   <<481, 639>>, <<480, 640>>, <<479, 641>>}
             ELSE {<<48, 64>>}]

TripClasses == [i \in Stations |-> {5}]

InitTrip == Construct({Date(2024, 3, 5)}, TripPoints, TripClasses, Ends)

NextTrip ==
    \/ Continue(MaxTripTicks) /\ UNCHANGED book
    \/ \E from_station_id \in Ids :
          \E to_station_id \in ToIds(from_station_id) :
             \E confirm \in Answers(from_station_id, to_station_id) :
                /\ Dispatch(from_station_id, to_station_id, confirm)
                /\ UNCHANGED book

SpecTrip == InitTrip /\ [][NextTrip]_vars

\* ------------------------------------------------------ every class
\* The game with stations of every class, with purchases and ticks only.
AllClasses == [i \in Stations |-> StationClassEnum]

NearPoints == [i \in Stations |-> {<<0, 3 * i>>}]

InitClasses == Construct(StartDates, NearPoints, AllClasses, Ends)

NextClasses ==
    \/ Continue(MaxTicks) /\ UNCHANGED book
    \/ \E station_id \in Ids :
          \E confirm \in BuyAnswers(station_id) :
             Buy(station_id, confirm) /\ UNCHANGED book

SpecClasses == InitClasses /\ [][NextClasses]_vars

\* ------------------------------------------------------ every price
\* The game with a large or middle station and a small one next to each
\* other, every price drawn at its least or at its greatest, with ticks,
\* purchases and dispatches.
PriceClasses ==
    [i \in Stations |->
        IF i = 1 THEN {1, 2, 3} ELSE IF i = 2 THEN {4, 5} ELSE {3}]

BothEnds == [i \in Stations |-> IF i <= 2 THEN BOOLEAN ELSE {FALSE}]

InitPrices ==
    Construct({Date(2024, 2, 28)}, NearPoints, PriceClasses, BothEnds)

NextPrices ==
    \/ Continue(MaxTicks) /\ UNCHANGED book
    \/ \E from_station_id \in Stations, to_station_id \in Stations :
          Dispatch(from_station_id, to_station_id, TRUE) /\ UNCHANGED book
    \/ \E station_id \in Stations :
          Buy(station_id, TRUE) /\ UNCHANGED book

SpecPrices == InitPrices /\ [][NextPrices]_vars

\* ------------------------------------------------------ a late game
\* The game LateTicks days after it was started on 5 March 2024 with a
\* class 2 and a class 3 station 50 apart, both bought on the first day and
\* no train dispatched since: _add_passenger has run LateTicks times, each
\* time adding 10 or 11 passengers from the first to the second and 12 to
\* 18 the other way, and no month has begun.  The pending counts are drawn
\* from the values these draws can add up to.
RECURSIVE DaysLater(_, _)
DaysLater(d, n) == IF n = 0 THEN d ELSE DaysLater(NextDay(d), n - 1)

LateClasses ==
    [i \in Stations |-> IF i = 1 THEN {2} ELSE IF i = 2 THEN {3} ELSE {5}]

LatePoints ==
    [i \in Stations |->
        IF i = 1 THEN {<<0, 0>>} ELSE IF i = 2 THEN {<<30, 40>>}
        ELSE {<<48, 64>>}]

\* The sums of n draws from lo..hi-1 among the candidates.
SumsOfDraws(n, range, candidates) ==
    {v \in candidates \cup {n * range[1], n * (range[2] - 1)} :
        n * range[1] <= v /\ v <= n * (range[2] - 1)}

LateStations ==
    {[i \in Stations |->
        IF i = 1
        THEN [fresh[i] EXCEPT !.status = ST_ENABLED, !.passengers[2] = p12]
        ELSE IF i = 2
        THEN [fresh[i] EXCEPT !.status = ST_ENABLED, !.passengers[1] = p21]
        ELSE fresh[i]] :
        fresh \in NewStations(NumStations, LatePoints, LateClasses, Ends),
        p12 \in SumsOfDraws(LateTicks,
                            get_passenger_range(2, 3), {}),
        p21 \in SumsOfDraws(LateTicks,
                            get_passenger_range(3, 2),
                            {TRAIN_CAPACITY - 1, TRAIN_CAPACITY,
                             TRAIN_CAPACITY + 1})}

InitLate ==
    /\ date = DaysLater(Date(2024, 3, 5), LateTicks)
    /\ stations \in LateStations
    /\ money = INITIAL_MONEY - get_random_price(2, FALSE)
                             - get_random_price(3, FALSE)
    /\ trains_v1 = <<>>
    /\ signal = 0
    /\ pc = "loop"
    /\ last = [op |-> "c", res |-> "ticked", earned |-> 0]
    /\ ticks = LateTicks
    /\ made = 0
    /\ book = NoBooks

NextLate ==
    \/ Continue(LateTicks + MaxTicks) /\ UNCHANGED book
    \/ \E from_station_id \in Ids :
          \E to_station_id \in ToIds(from_station_id) :
             \E confirm \in Answers(from_station_id, to_station_id) :
                /\ Dispatch(from_station_id, to_station_id, confirm)
                /\ UNCHANGED book
    \/ \E station_id \in Ids :
          \E confirm \in BuyAnswers(station_id) :
             Buy(station_id, confirm) /\ UNCHANGED book

SpecLate == InitLate /\ [][NextLate]_vars

\* ================================================================ claims
\* Operators the claims are stated with.
Pending(sts, origin, destination) == sts[origin].passengers[destination]

\* What a command must leave alone to be a no-op that lets the game go on.
NoOpContinue ==
    /\ UNCHANGED <<date, stations, trains_v1, money>>
    /\ signal' = 0
    /\ pc' = "loop"

\* A train one tick later, and whether it has then gone further than the
\* Euclidean distance between its stations.
Advanced(train) ==
    [train EXCEPT !.distance_travelled = @ + train.speed]

HasArrived(train) ==
    train.distance_travelled * train.distance_travelled
        > DistanceSquared(stations[train.from_station],
                          stations[train.to_station])

StillTravelling(train) == ~HasArrived(train)

AdvancedTrains == [i \in 1..Len(trains_v1) |-> Advanced(trains_v1[i])]

\* 12 per passenger of every train of a sequence that has arrived.
RECURSIVE Fares(_, _)
Fares(trains, i) ==
    IF i > Len(trains) THEN 0
    ELSE (IF HasArrived(trains[i]) THEN 12 * trains[i].passengers ELSE 0)
         + Fares(trains, i + 1)

\* The maintenance fee of the spec's table, summed over the enabled
\* stations.
FeeOfTier(tier) == (6 - tier) * 50

RECURSIVE FeesDue(_, _)
FeesDue(sts, i) ==
    IF i > Len(sts) THEN 0
    ELSE (IF sts[i].status = "enabled"
          THEN FeeOfTier(sts[i].station_class) ELSE 0)
         + FeesDue(sts, i + 1)

\* C1: a tick returns -1 and ends the main loop exactly when the balance is
\* negative after it, and returns 0 otherwise; nothing is processed once
\* the loop has ended; a step that is no tick ends the loop only by "q",
\* whatever the balance.
C1_TickReturnsBankruptcy ==
    [][/\ pc = "loop"
       /\ (ticks' # ticks) =>
             IF money' < 0
             THEN signal' = -1 /\ pc' = "exited"
             ELSE signal' = 0 /\ pc' = "loop"
       /\ (ticks' = ticks /\ pc' = "exited") => last'.op = "q"]_vars

\* C1 witness: a tick has found the balance negative and ended the loop.
C1_Witness ==
    /\ last.res = "bankrupt"
    /\ money < 0
    /\ signal = -1
    /\ pc = "exited"

\* The tick after dispatch at which a train of speed 80 has first gone
\* further than the Euclidean distance d between its stations:
\* floor(d / 80) + 1, the k with 80 (k - 1) <= d < 80 k.
ArrivalTick(train) ==
    LET d2 == DistanceSquared(stations[train.from_station],
                              stations[train.to_station])
    IN  CHOOSE k \in 1..20 :
           /\ (80 * k) * (80 * k) > d2
           /\ (80 * (k - 1)) * (80 * (k - 1)) <= d2

\* The ticks a train has been under way: it starts at 0 and every tick
\* moves it by 80.
TicksUnderWay(train) == train.distance_travelled \div 80

NotYetDue(train) == TicksUnderWay(train) < ArrivalTick(train)

\* C2: a train starts with distance 0 and speed 80; a tick moves every
\* tracked train by 80 and resolves exactly those whose ticks under way
\* then equal floor(d / 80) + 1, so every tracked train has been under way
\* for fewer ticks than that and has not gone further than d.
C2_ArrivalAtFloorPlusOne ==
    /\ [](\A i \in 1..Len(trains_v1) :
             /\ trains_v1[i].speed = 80
             /\ trains_v1[i].distance_travelled
                  = 80 * TicksUnderWay(trains_v1[i])
             /\ NotYetDue(trains_v1[i])
             /\ ~HasArrived(trains_v1[i]))
    /\ [][IF ticks' # ticks
          THEN trains_v1' = SelectSeq(AdvancedTrains, NotYetDue)
          ELSE \A i \in 1..Len(trains_v1') :
                  i > Len(trains_v1) =>
                     trains_v1'[i].distance_travelled = 0]_vars

\* C2 witness: on the map whose stations are 800 apart, the one train of
\* the game has been resolved by the 11th tick, having been tracked for
\* the ten ticks before.
C2_Witness ==
    /\ DistanceSquared(stations[1], stations[2]) = 800 * 800
    /\ ticks = 11
    /\ made = 1
    /\ trains_v1 = <<>>
    /\ pc = "loop"

\* C3: a tick keeps exactly the trains that have not arrived, each moved by
\* its speed and in their order, and credits 12 per passenger of those that
\* have arrived (next to the month's maintenance); no other step removes or
\* moves a train: it leaves the trains alone or appends one new train.
C3_TrainLifecycle ==
    [][IF ticks' # ticks
       THEN /\ trains_v1' = SelectSeq(AdvancedTrains, StillTravelling)
            /\ money' = money + Fares(AdvancedTrains, 1)
                          - (IF date'.day = 1 THEN FeesDue(stations, 1) ELSE 0)
       ELSE \/ trains_v1' = trains_v1
            \/ /\ Len(trains_v1') = Len(trains_v1) + 1
               /\ SubSeq(trains_v1', 1, Len(trains_v1)) = trains_v1
               /\ trains_v1'[Len(trains_v1')].distance_travelled = 0]_vars

\* C3 witness: a tick has resolved the arrival of a train that carried
\* passengers.
C3_Witness ==
    /\ last.res = "ticked"
    /\ last.earned > 0
    /\ Len(trains_v1) < made

\* C4: a confirmed dispatch carries min(240, pending) passengers, takes
\* exactly them off the origin's counter for the destination, debits
\* floor(0.46 * distance) >= 0 and appends one train with these passengers
\* and distance 0, changing nothing else; no pending counter is ever
\* negative.
C4_DispatchEffect ==
    /\ [](\A o \in Stations, d \in Stations : Pending(stations, o, d) >= 0)
    /\ [][\A f \in Stations, t \in Stations :
             (last'.op = "g" /\ Dispatch(f, t, TRUE)) =>
                LET pending == Pending(stations, f, t)
                    delivered == IF pending < 240 THEN pending ELSE 240
                    cost == money - money'
                    d2 == DistanceSquared(stations[f], stations[t])
                IN  /\ stations' =
                          [stations EXCEPT
                              ![f].passengers[t] = pending - delivered]
                    /\ cost >= 0
                    /\ 10000 * cost * cost <= 2116 * d2
                    /\ 2116 * d2 < 10000 * (cost + 1) * (cost + 1)
                    /\ trains_v1' =
                          Append(trains_v1,
                                 [from_station |-> f, to_station |-> t,
                                  speed |-> 80, capacity |-> 240,
                                  ticket_price |-> 12,
                                  passengers |-> delivered,
                                  distance_travelled |-> 0])
                    /\ delivered <= 240
                    /\ date' = date]_vars

\* C4 witness: a dispatch has filled a train to its capacity of 240 and
\* left passengers waiting at the origin.
C4_Witness ==
    /\ last = [op |-> "g", res |-> "dispatched"]
    /\ \E i \in 1..Len(trains_v1) :
          /\ trains_v1[i].passengers = 240
          /\ trains_v1[i].distance_travelled = 0
          /\ Pending(stations, trains_v1[i].from_station,
                     trains_v1[i].to_station) > 0

\* C5: a confirmed purchase of an unused station the balance can pay for
\* enables that station alone, debits exactly its price, leaves the balance
\* at 0 or more and changes nothing else.
C5_PurchaseEffect ==
    [][\A s \in Stations :
          (/\ last'.op = "b"
           /\ stations[s].status = "unused"
           /\ money - stations[s].buy_pricing >= 0
           /\ Buy(s, TRUE))
          => /\ stations' = [stations EXCEPT ![s].status = "enabled"]
             /\ money' = money - stations[s].buy_pricing
             /\ money' >= 0
             /\ UNCHANGED <<date, trains_v1>>
             /\ signal' = 0 /\ pc' = "loop"]_vars

\* C5 witness: a station has just been bought while another one is unused.
C5_Witness ==
    /\ last = [op |-> "b", res |-> "bought"]
    /\ \E s \in Stations, u \in Stations :
          /\ stations[s].status = "enabled"
          /\ stations[u].status = "unused"
          /\ money = INITIAL_MONEY - stations[s].buy_pricing

\* C6: a purchase request for a station that is not unused, or that the
\* balance cannot pay for, or that the user does not confirm, changes
\* nothing and the game goes on.
C6_PurchaseRejected ==
    [][\A s \in Stations, confirm \in BOOLEAN :
          (/\ last'.op = "b"
           /\ \/ stations[s].status # "unused"
              \/ money - stations[s].buy_pricing < 0
              \/ ~confirm
           /\ Buy(s, confirm))
          => NoOpContinue]_vars

\* C6 witness: a request for an owned station has been turned down.
C6_Witness ==
    /\ last = [op |-> "b", res |-> "invalid"]
    /\ \E s \in Stations : stations[s].status = "enabled"

\* C7: a purchase command naming an id that resolves to no station changes
\* nothing, returns 0 and the game goes on.
C7_UnknownPurchaseRejected ==
    [][\A confirm \in BOOLEAN :
          (last'.op = "b" /\ Buy(NoId, confirm)) => NoOpContinue]_vars

\* C8: a dispatch whose origin or destination does not resolve, or that the
\* user does not confirm, changes nothing and returns 0; a train is only
\* ever created by a confirmed dispatch.
C8_DispatchRejected ==
    [][/\ (last'.op = "g") =>
            \A f \in Ids, t \in Ids, confirm \in BOOLEAN :
               (/\ f = NoId \/ t = NoId \/ ~confirm
                /\ Dispatch(f, t, confirm))
               => NoOpContinue
       /\ (Len(trains_v1') > Len(trains_v1)) =>
            \E f \in Stations, t \in Stations : Dispatch(f, t, TRUE)]_vars

\* C8 witness: a dispatch between two stations has been declined.
C8_Witness == last = [op |-> "g", res |-> "declined"]

\* What a tick must leave of every station: its place, class, price,
\* status and id.
SameStationsButPending ==
    \A s \in Stations :
       [stations'[s] EXCEPT !.passengers = stations[s].passengers]
          = stations[s]

\* C9: a tick whose new date is the first of a month debits the fees of the
\* enabled stations, 250, 200, 150, 100, 50 by tier, next to what the
\* arrivals credit; a tick to any other day debits nothing; no tick changes
\* a station's status, class or price.
C9_MonthlyMaintenance ==
    [][(ticks' # ticks) =>
          /\ money' = money + Fares(AdvancedTrains, 1)
                        - (IF date'.day = 1 THEN FeesDue(stations, 1) ELSE 0)
          /\ SameStationsButPending]_vars

\* C9 witness: a tick has reached the first of a month with two enabled
\* stations of different classes.
C9_Witness ==
    /\ last.op = "c"
    /\ date.day = 1
    /\ \E s \in Stations, u \in Stations :
          /\ stations[s].status = "enabled"
          /\ stations[u].status = "enabled"
          /\ stations[s].station_class # stations[u].station_class

\* C10: a tick adds to the counter of every ordered pair of distinct
\* enabled stations one count of the range of their classes, and leaves
\* every other counter as it was.
C10_PassengerGeneration ==
    [][(ticks' # ticks) =>
          \A o \in Stations, d \in Stations :
             LET added == Pending(stations', o, d) - Pending(stations, o, d)
                 range == get_passenger_range(stations[o].station_class,
                                              stations[d].station_class)
             IN  IF /\ o # d
                    /\ stations[o].status = "enabled"
                    /\ stations[d].status = "enabled"
                 THEN range[1] <= added /\ added < range[2]
                 ELSE added = 0]_vars

\* C10 witness: a tick has added passengers both ways between two enabled
\* stations of different classes, more one way than the other.
C10_Witness ==
    /\ last.op = "c"
    /\ \E o \in Stations, d \in Stations :
          /\ stations[o].status = "enabled"
          /\ stations[d].status = "enabled"
          /\ stations[o].station_class # stations[d].station_class
          /\ Pending(stations, o, d) > Pending(stations, d, o)
          /\ Pending(stations, d, o) > 0

\* C11: no pending counter falls in a step that is not a confirmed
\* dispatch: a counter of origin o for destination d falls only in a
\* confirmed dispatch from o to d; ticks, purchases, queries and rejected
\* commands leave every counter as it was or raise it.
C11_PendingFallsOnlyByDispatch ==
    [][\A o \in Stations, d \in Stations :
          (Pending(stations', o, d) < Pending(stations, o, d)) =>
             /\ last'.op = "g"
             /\ ticks' = ticks
             /\ Dispatch(o, d, TRUE)]_vars

\* C11 witness: a second tick has raised the counters on top of the first
\* one's, and a dispatch has then taken passengers off one of them.
C11_Witness ==
    /\ last = [op |-> "g", res |-> "dispatched"]
    /\ ticks >= 2
    /\ \E i \in 1..Len(trains_v1) : trains_v1[i].passengers >= 12

\* C12: the price of every station lies in [270 * level, 370 * level) with
\* level = 6 - tier, and no step (tick, purchase or dispatch) changes the
\* price or the class of a station.
C12_PriceInBandAndFixed ==
    /\ [](\A s \in Stations :
             LET level == 6 - stations[s].station_class
             IN  /\ level * 270 <= stations[s].buy_pricing
                 /\ stations[s].buy_pricing < level * 270 + 100 * level)
    /\ [][\A s \in Stations :
             /\ stations'[s].buy_pricing = stations[s].buy_pricing
             /\ stations'[s].station_class = stations[s].station_class]_vars

\* C12 witness: a station of the greatest price of its class has been
\* bought, ticks have passed and a train has been dispatched from it.
C12_Witness ==
    /\ last = [op |-> "g", res |-> "dispatched"]
    /\ ticks >= 1
    /\ \E s \in Stations :
          /\ stations[s].status = "enabled"
          /\ stations[s].buy_pricing
               = (6 - stations[s].station_class) * 370 - 1
          /\ \E i \in 1..Len(trains_v1) : trains_v1[i].from_station = s

\* The daily range the specification gives for a flow from a station of
\* class fromClass to one of class toClass: with base = (1 + the smaller
\* level) * the greater level, [floor(0.8 base), floor(1.2 base)) when the
\* origin's level is not above the destination's, and
\* [floor(0.64 base), floor(0.8 base)) when it is.
DailyPassengerRange(fromClass, toClass) ==
    LET levelFrom == 6 - fromClass
        levelTo == 6 - toClass
        least == IF levelFrom < levelTo THEN levelFrom ELSE levelTo
        most == IF levelFrom < levelTo THEN levelTo ELSE levelFrom
        base == (1 + least) * most
    IN  IF levelFrom <= levelTo
        THEN <<(4 * base) \div 5, (6 * base) \div 5>>
        ELSE <<(16 * base) \div 25, (4 * base) \div 5>>

\* C13: for all 25 ordered pairs of classes get_passenger_range returns
\* the range of the specification, chosen by the levels as they were
\* given; the pair (5, 5) has the range [1, 2), and a tick adds exactly 1
\* passenger each way between two enabled stations of class 5.
C13_PassengerRangeTable ==
    /\ [](\A o \in Stations, d \in Stations :
             get_passenger_range(stations[o].station_class,
                                 stations[d].station_class)
               = DailyPassengerRange(stations[o].station_class,
                                     stations[d].station_class))
    /\ [](\A lhs_class \in StationClassEnum, rhs_class \in StationClassEnum :
             get_passenger_range(lhs_class, rhs_class)
               = DailyPassengerRange(lhs_class, rhs_class))
    /\ [](get_passenger_range(5, 5) = <<1, 2>>)
    /\ [][(ticks' # ticks) =>
             \A o \in Stations, d \in Stations :
                (/\ o # d
                 /\ stations[o].status = "enabled"
                 /\ stations[d].status = "enabled")
                => LET added == Pending(stations', o, d)
                                  - Pending(stations, o, d)
                       range == DailyPassengerRange(stations[o].station_class,
                                                    stations[d].station_class)
                   IN  /\ range[1] <= added
                       /\ added < range[2]
                       /\ (stations[o].station_class = 5
                           /\ stations[d].station_class = 5) => added = 1]_vars

\* C13 witness: two stations of class 5, both bought before the first
\* tick, have one passenger each way for every tick so far.
C13_Witness ==
    /\ ticks = 2
    /\ \E o \in Stations, d \in Stations :
          /\ o # d
          /\ stations[o].station_class = 5
          /\ stations[d].station_class = 5
          /\ Pending(stations, o, d) = 2
          /\ Pending(stations, d, o) = 2

\* C14: every station of the new game is unused; a status changes only
\* from unused to enabled and only in a confirmed purchase of that
\* station, so an enabled station stays enabled; no station is ever
\* disabled and the list of stations keeps its length and its ids.
C14_StatusLifecycle ==
    /\ \A s \in Stations : stations[s].status = "unused"
    /\ [](/\ Len(stations) = NumStations
          /\ \A s \in Stations : stations[s].status \in {"unused", "enabled"})
    /\ [][/\ Len(stations') = Len(stations)
          /\ \A s \in Stations :
                /\ stations'[s].id = stations[s].id
                /\ (stations'[s].status # stations[s].status) =>
                      /\ stations[s].status = "unused"
                      /\ stations'[s].status = "enabled"
                      /\ last'.op = "b"
                      /\ Buy(s, TRUE)]_vars

\* C14 witness: a tick has passed over a game in which one station has
\* been bought and another one has not.
C14_Witness ==
    /\ last = [op |-> "c", res |-> "ticked", earned |-> 0]
    /\ ticks = 2
    /\ \E s \in Stations, u \in Stations :
          /\ stations[s].status = "enabled"
          /\ stations[u].status = "unused"

\* C15: a tick resolves the trains, then advances the date by one day,
\* then runs maintenance on the new date, then generates passengers, then
\* checks the balance: the balance the check sees is the old one plus the
\* fares of the trains that arrive in this tick minus the fees due on the
\* new date, the fares being those of the passengers the trains took on
\* when they were dispatched, and the passengers generated in the tick
\* stay at their stations.
C15_TickOrder ==
    [][(ticks' # ticks) =>
          LET credited == Fares(AdvancedTrains, 1)
              fees == IF NextDay(date).day = 1
                      THEN FeesDue(stations, 1) ELSE 0
          IN  /\ date' = NextDay(date)
              /\ money' = money + credited - fees
              /\ (pc' = "exited") <=> (money + credited - fees < 0)
              /\ (pc' = "loop") <=> (money + credited - fees >= 0)
              /\ trains_v1' = SelectSeq(AdvancedTrains, StillTravelling)
              /\ \A o \in Stations, d \in Stations :
                    Pending(stations', o, d) >= Pending(stations, o, d)]_vars

\* C15 witness: a tick to the first of a month has credited an arrival
\* and debited the fees, and the game goes on with a balance that would
\* be negative without the fares of this tick.
C15_Witness ==
    /\ last.res = "ticked"
    /\ date.day = 1
    /\ last.earned > 0
    /\ money >= 0
    /\ money - last.earned < 0
    /\ pc = "loop"

\* C16: a command runs a tick if and only if it is none of s, t, a, g, b
\* and q; each of these six leaves the date, the trains under way and the
\* generation of passengers alone, whatever its input.
C16_QueriesAndMutatorsDoNotTick ==
    [][/\ (ticks' # ticks) <=>
             (last'.op \notin {"s", "t", "a", "g", "b", "q"})
       /\ (last'.op \in {"s", "t", "a", "g", "b", "q"}) =>
             /\ date' = date
             /\ \A i \in 1..Len(trains_v1) :
                   /\ i <= Len(trains_v1')
                   /\ trains_v1'[i] = trains_v1[i]
             /\ \A o \in Stations, d \in Stations :
                   Pending(stations', o, d) <= Pending(stations, o, d)]_vars

\* C17: a confirmed dispatch between two ids that resolve, the origin
\* being the destination or not, returns 0 and leaves the game ready for
\* the next command.
C17_ConfirmedDispatchCompletes ==
    [][\A f \in Stations, t \in Stations :
          (last'.op = "g" /\ Dispatch(f, t, TRUE)) =>
             /\ signal' = 0
             /\ pc' = "loop"]_vars

\* C18: for each of the 25 ordered pairs of classes get_passenger_range
\* returns bounds with 1 <= lo < hi, so that randbelow(hi - lo) is never
\* given 0 and no tick fails in the generator; every tick adds at least
\* one passenger to the counter of every ordered pair of distinct enabled
\* stations.
C18_RangeNeverEmpty ==
    /\ [](\A lhs_class \in StationClassEnum, rhs_class \in StationClassEnum :
             LET range == get_passenger_range(lhs_class, rhs_class)
             IN  1 <= range[1] /\ range[1] < range[2])
    /\ [][(ticks' # ticks) =>
             /\ last'.res # "raised"
             /\ pc' # "crashed"
             /\ \A o \in Stations, d \in Stations :
                   (/\ o # d
                    /\ stations[o].status = "enabled"
                    /\ stations[d].status = "enabled")
                   => Pending(stations', o, d)
                        >= Pending(stations, o, d) + 1]_vars

\* C18 witness: the first tick has drawn from the narrowest range, the
\* one between two enabled stations of class 5, and added one passenger.
C18_Witness ==
    /\ last.res = "ticked"
    /\ ticks = 1
    /\ \E o \in Stations, d \in Stations :
          /\ o # d
          /\ stations[o].status = "enabled"
          /\ stations[d].status = "enabled"
          /\ stations[o].station_class = 5
          /\ stations[d].station_class = 5
          /\ Pending(stations, o, d) = 1

\* C19: passengers wait only at an enabled station for another enabled
\* station; every train that carries passengers runs between two distinct
\* enabled stations; a confirmed dispatch whose origin is its destination
\* or whose origin or destination is not enabled is charged its cost and
\* appends a train with 0 passengers, which earns 0.
C19_PassengersOnlyBetweenOwned ==
    /\ [](\A o \in Stations, d \in Stations :
             (Pending(stations, o, d) > 0) =>
                /\ o # d
                /\ stations[o].status = "enabled"
                /\ stations[d].status = "enabled")
    /\ [](\A i \in 1..Len(trains_v1) :
             (trains_v1[i].passengers > 0) =>
                /\ trains_v1[i].from_station # trains_v1[i].to_station
                /\ stations[trains_v1[i].from_station].status = "enabled"
                /\ stations[trains_v1[i].to_station].status = "enabled")
    /\ [][\A f \in Stations, t \in Stations :
             (/\ last'.op = "g"
              /\ \/ f = t
                 \/ stations[f].status # "enabled"
                 \/ stations[t].status # "enabled"
              /\ Dispatch(f, t, TRUE))
             => /\ Len(trains_v1') = Len(trains_v1) + 1
                /\ trains_v1'[Len(trains_v1')].passengers = 0
                /\ Earned(trains_v1'[Len(trains_v1')]) = 0
                /\ money' = money - DispatchCost(stations[f], stations[t])
                /\ stations' = stations]_vars

\* C19 witness: after a tick, a train has been dispatched from an enabled
\* station to an unused one 1000 away: it carries nobody and has cost 460.
C19_Witness ==
    /\ last = [op |-> "g", res |-> "dispatched"]
    /\ ticks >= 1
    /\ \E i \in 1..Len(trains_v1) :
          /\ trains_v1[i].passengers = 0
          /\ stations[trains_v1[i].from_station].status = "enabled"
          /\ stations[trains_v1[i].to_station].status = "unused"
          /\ money = INITIAL_MONEY
                       - stations[trains_v1[i].from_station].buy_pricing - 460

\* ------------------------------------------------------ the books
\* The game of SpecPrices with books kept of every step: what each tick
\* generated for every ordered pair of stations, what every train took on
\* when it was dispatched, what the trains that arrived carried, and what
\* purchases, dispatches and maintenance debited.
RECURSIVE SumTo(_, _)
SumTo(f, n) == IF n = 0 THEN 0 ELSE f[n] + SumTo(f, n - 1)

Total(f) == SumTo([o \in Stations |-> SumTo(f[o], NumStations)], NumStations)

\* The passengers of the trains from o to d in a sequence of trains: of
\* those that have arrived, or of those that have not.
RECURSIVE Aboard(_, _, _, _, _)
Aboard(trains, i, o, d, arrived) ==
    IF i > Len(trains) THEN 0
    ELSE (IF /\ trains[i].from_station = o
             /\ trains[i].to_station = d
             /\ HasArrived(trains[i]) = arrived
          THEN trains[i].passengers ELSE 0)
         + Aboard(trains, i + 1, o, d, arrived)

\* The price of the stations a step has enabled.
RECURSIVE PricesPaid(_)
PricesPaid(i) ==
    IF i > NumStations THEN 0
    ELSE (IF stations[i].status # stations'[i].status
          THEN stations[i].buy_pricing ELSE 0)
         + PricesPaid(i + 1)

Booked ==
    book' =
       IF ticks' # ticks
       THEN [generated |->
                [o \in Stations |-> [d \in Stations |->
                    book.generated[o][d] + Pending(stations', o, d)
                                         - Pending(stations, o, d)]],
             carried |-> book.carried,
             arrived |->
                [o \in Stations |-> [d \in Stations |->
                    book.arrived[o][d]
                      + Aboard(AdvancedTrains, 1, o, d, TRUE)]],
             debited |-> book.debited
                           + (IF date'.day = 1
                              THEN FeesDue(stations, 1) ELSE 0)]
       ELSE IF Len(trains_v1') > Len(trains_v1)
       THEN LET train == trains_v1'[Len(trains_v1')]
            IN  [book EXCEPT
                   !.carried[train.from_station][train.to_station] =
                       @ + train.passengers,
                   !.debited =
                       @ + DispatchCost(stations[train.from_station],
                                        stations[train.to_station])]
       ELSE [book EXCEPT !.debited = @ + PricesPaid(1)]

NextBooks ==
    \/ Continue(MaxTicks) /\ Booked
    \/ \E from_station_id \in Stations, to_station_id \in Stations :
          Dispatch(from_station_id, to_station_id, TRUE) /\ Booked
    \/ \E station_id \in Stations : Buy(station_id, TRUE) /\ Booked

SpecBooks == InitPrices /\ [][NextBooks]_vars

\* C20: after any ticks, purchases and dispatches, what was generated for
\* an ordered pair of stations is what waits at the origin plus what the
\* trains dispatched for the pair took on; what these trains took on is
\* what has arrived plus what is under way; and the balance is 2000 less
\* everything debited plus 12 for every passenger that has arrived.
C20_Conservation ==
    /\ \A o \in Stations, d \in Stations :
          /\ book.generated[o][d]
               = Pending(stations, o, d) + book.carried[o][d]
          /\ book.carried[o][d]
               = book.arrived[o][d] + Aboard(trains_v1, 1, o, d, FALSE)
          /\ book.arrived[o][d] <= book.generated[o][d]
    /\ money = INITIAL_MONEY - book.debited + 12 * Total(book.arrived)

\* C20 witness: on the first of a month a train has arrived with
\* passengers, fees have been debited and passengers wait for the next
\* train.
C20_Witness ==
    /\ date.day = 1
    /\ pc = "loop"
    /\ \E o \in Stations, d \in Stations :
          /\ book.arrived[o][d] > 0
          /\ Pending(stations, o, d) > 0
    /\ book.debited > stations[1].buy_pricing + stations[2].buy_pricing

====
